---- MODULE Spec2Model ----
(***************************************************************************)
(* A model of the string interner of crates/typst-utils/src/pico.rs and of *)
(* the bytecode dispatch of crates/typst/src/lang/opcodes.rs.              *)
(*                                                                         *)
(* Interner: every PicoStr::new / PicoStr::static_ / PicoStr::resolve call *)
(* of a thread is a sequence of steps, one per lock operation or table     *)
(* access, so that every interleaving the RwLock allows is a behaviour of  *)
(* Spec; PicoStr::cmp is an operator on the table.                         *)
(***************************************************************************)
EXTENDS Integers, Sequences, FiniteSets, TLC

\* ------------------------------------------------------------------ bounds

\* Number of threads calling into the global INTERNER.
NThreads == 2

\* Number of identities the counter can represent: u32::MAX + 1 = 2^32 in the
\* source (PicoStr(u32)), scaled down so that exhaustion is reachable.
MaxIds == 2

Threads == 1..NThreads

\* The texts interned: "", "b" and "ab" as sequences of bytes (1 = 'a', 2 = 'b').
Strings == {<<>>, <<2>>, <<1, 2>>}

\* The texts that are literals of the program: PicoStr::static_ takes a &'static str
\* (the pico! macro passes a literal), PicoStr::new any &str.
StaticStrings == {<<>>, <<2>>}

\* ------------------------------------------------------------------- state

VARIABLES
    to_id,      \* Interner.to_id: text -> identity
    from_id,    \* Interner.from_id: the texts, indexed by identity (0-based in the source)
    readers,    \* threads holding a read guard of INTERNER
    writer,     \* the thread holding the write guard of INTERNER, 0 if none
    poisoned,   \* the RwLock is poisoned: a thread panicked holding the write guard
    th,         \* per thread: the call it is in and its position in it
    returned,   \* history: every <<text, identity, kind>> an intern call has returned
    prog,       \* the flat instruction sequence the engine runs
    stack,      \* the active scopes, innermost last
    slots,      \* the slot file
    phase,      \* "fetch": the engine is about to fetch; "handle": Opcode::run has
                \* advanced the pointer and is about to call the handler;
                \* "done" / "error": execution ended
    cur,        \* position in prog (from 1) of the opcode Opcode::run was called on
    iters,      \* iterations counted by BeginIter
    last        \* history: the opcode last handled and what it did

ivars == <<to_id, from_id, readers, writer, poisoned, th, returned>>

vmvars == <<prog, stack, slots, phase, cur, iters, last>>

vars == <<to_id, from_id, readers, writer, poisoned, th, returned,
          prog, stack, slots, phase, cur, iters, last>>

\* A thread outside any call.
Idle ==
    [pc |-> "idle", kind |-> "new", str |-> <<>>, id |-> 0]

\* A thread that panicked: it makes no further call.
Panicked == [Idle EXCEPT !.pc = "panicked"]

\* ------------------------------------------------------- pure operations

\* HashMap::insert: a new key is added, the value of an existing key is replaced.
HashInsert(map, key, value) ==
    [k \in DOMAIN map \cup {key} |-> IF k = key THEN value ELSE map[k]]

\* to_id.get(string) of PicoStr::new: <<TRUE, id>> when found, <<FALSE, 0>> otherwise.
NewMissAlways(s) == <<FALSE, 0>>
NewGet(s) ==
    IF s \in DOMAIN to_id THEN <<TRUE, to_id[s]>> ELSE <<FALSE, 0>>

\* to_id.get(string) of PicoStr::static_.
StaticMissAlways(s) == <<FALSE, 0>>
StaticGet(s) ==
    IF s \in DOMAIN to_id THEN <<TRUE, to_id[s]>> ELSE <<FALSE, 0>>

Get(kind, s) == IF kind = "new" THEN NewGet(s) ELSE StaticGet(s)

\* from_id.len().try_into(): usize -> u32. <<TRUE, n>> when n fits the identity
\* type, <<FALSE, 0>> (the "out of string ids" panic of expect) otherwise.
TryIntoWrapping(n) == <<TRUE, n % MaxIds>>
TryIntoOneBased(n) ==
    IF n < MaxIds THEN <<TRUE, n + 1>> ELSE <<FALSE, 0>>
TryInto(n) ==
    IF n < MaxIds THEN <<TRUE, n>> ELSE <<FALSE, 0>>

\* from_id.push(string).
PushFront(vec, s) == <<s>> \o vec
Push(vec, s) == Append(vec, s)

\* The read guard of the lookup is a temporary of the `if let`: it is dropped
\* when the statement ends, before INTERNER.write() is called.
ReadGuardKept(t) == readers
DropReadGuard(t) == readers \ {t}

\* str::cmp: lexicographic comparison of the bytes.
RECURSIVE StrCmpFrom(_, _, _)
StrCmpFrom(a, b, i) ==
    IF i > Len(a) /\ i > Len(b) THEN "Equal"
    ELSE IF i > Len(a) THEN "Less"
    ELSE IF i > Len(b) THEN "Greater"
    ELSE IF a[i] < b[i] THEN "Less"
    ELSE IF a[i] > b[i] THEN "Greater"
    ELSE StrCmpFrom(a, b, i + 1)

StrCmp(a, b) == StrCmpFrom(a, b, 1)

\* self.resolve() as cmp evaluates it: the entry of from_id at the identity.
Resolve(id) == from_id[id + 1]

\* PicoStr::cmp: self.resolve().cmp(other.resolve()).
CmpRawIds(a, b) ==
    IF a < b THEN "Less" ELSE IF a > b THEN "Greater" ELSE "Equal"
Cmp(a, b) == StrCmp(Resolve(a), Resolve(b))

\* PicoStr::partial_cmp: Some(self.cmp(other)).
\* #[derive(Eq, PartialEq, Hash)] on PicoStr(u32): equality of the raw integers.
Eq(a, b) == a = b

PartialCmp(a, b) == <<"Some", Cmp(a, b)>>

\* ---------------------------------------------------------------- actions

\* Lazy::new(|| RwLock::new(Interner { to_id: HashMap::new(), from_id: Vec::new() })).
InternerInit ==
    /\ to_id = [s \in {} |-> 0]
    /\ from_id = <<>>
    /\ readers = {}
    /\ writer = 0
    /\ poisoned = FALSE
    /\ th = [t \in Threads |-> Idle]
    /\ returned = {}

\* No program is being run.
VmIdle ==
    /\ prog = <<>>
    /\ stack = <<>>
    /\ slots = <<>>
    /\ phase = "done"
    /\ cur = 0
    /\ iters = 0
    /\ last = [op |-> "Flow", note |-> "none"]

Init == InternerInit /\ VmIdle

\* A thread enters PicoStr::new(string).
CallNew(t, s) ==
    /\ th[t].pc = "idle"
    /\ th' = [th EXCEPT ![t] = [Idle EXCEPT !.pc = "start", !.kind = "new", !.str = s]]
    /\ UNCHANGED <<to_id, from_id, readers, writer, poisoned, returned, vmvars>>

\* A thread enters PicoStr::static_(string).
CallStatic(t, s) ==
    /\ th[t].pc = "idle"
    /\ th' = [th EXCEPT ![t] = [Idle EXCEPT !.pc = "start", !.kind = "static_", !.str = s]]
    /\ UNCHANGED <<to_id, from_id, readers, writer, poisoned, returned, vmvars>>

\* INTERNER.read().unwrap().to_id.get(string): the read lock is granted when no
\* thread holds the write guard; unwrap panics on a poisoned lock.
ReadLookup(t) ==
    /\ th[t].pc = "start"
    /\ writer = 0
    /\ IF poisoned
       THEN /\ th' = [th EXCEPT ![t] = Panicked]
            /\ UNCHANGED readers
       ELSE LET got == Get(th[t].kind, th[t].str) IN
            /\ readers' = readers \cup {t}
            /\ th' = [th EXCEPT ![t].pc = IF got[1] THEN "hit" ELSE "miss",
                                ![t].id = got[2]]
    /\ UNCHANGED <<to_id, from_id, writer, poisoned, returned, vmvars>>

\* `return id;` of the lookup: the read guard is dropped on the way out.
ReturnFound(t) ==
    /\ th[t].pc = "hit"
    /\ readers' = readers \ {t}
    /\ returned' = returned \cup {<<th[t].str, th[t].id, th[t].kind>>}
    /\ th' = [th EXCEPT ![t] = Idle]
    /\ UNCHANGED <<to_id, from_id, writer, poisoned, vmvars>>

\* The `if let` ends without a match.
MissFallThrough(t) ==
    /\ th[t].pc = "miss"
    /\ readers' = DropReadGuard(t)
    /\ th' = [th EXCEPT ![t].pc = "wantwrite"]
    /\ UNCHANGED <<to_id, from_id, writer, poisoned, returned, vmvars>>

\* let mut interner = INTERNER.write().unwrap(): granted when no guard at all is
\* held; unwrap panics on a poisoned lock (the guard is dropped by the unwinding).
\* let num = interner.from_id.len().try_into().expect("out of string ids"): the
\* panic unwinds through the write guard, which poisons the lock.
WriteLock(t) ==
    /\ th[t].pc = "wantwrite"
    /\ writer = 0
    /\ readers = {}
    /\ LET num == TryInto(Len(from_id)) IN
       IF poisoned
       THEN /\ th' = [th EXCEPT ![t] = Panicked]
            /\ UNCHANGED <<writer, poisoned>>
       ELSE IF num[1]
       THEN /\ th' = [th EXCEPT ![t].pc = "insert", ![t].id = num[2]]
            /\ writer' = t
            /\ UNCHANGED poisoned
       ELSE /\ th' = [th EXCEPT ![t] = Panicked]
            /\ writer' = 0
            /\ poisoned' = TRUE
    /\ UNCHANGED <<to_id, from_id, readers, returned, vmvars>>

\* interner.to_id.insert(string, id).
InsertToId(t) ==
    /\ th[t].pc = "insert"
    /\ to_id' = HashInsert(to_id, th[t].str, th[t].id)
    /\ th' = [th EXCEPT ![t].pc = "push"]
    /\ UNCHANGED <<from_id, readers, writer, poisoned, returned, vmvars>>

\* interner.from_id.push(string); id  -- the write guard is dropped on return.
PushFromId(t) ==
    /\ th[t].pc = "push"
    /\ from_id' = Push(from_id, th[t].str)
    /\ writer' = 0
    /\ returned' = returned \cup {<<th[t].str, th[t].id, th[t].kind>>}
    /\ th' = [th EXCEPT ![t] = Idle]
    /\ UNCHANGED <<to_id, readers, poisoned, vmvars>>

\* A thread enters resolve() of a PicoStr it holds, i.e. one an intern call returned.
CallResolve(t, id) ==
    /\ th[t].pc = "idle"
    /\ \E r \in returned : r[2] = id
    /\ th' = [th EXCEPT ![t] = [Idle EXCEPT !.pc = "rstart", !.id = id]]
    /\ UNCHANGED <<to_id, from_id, readers, writer, poisoned, returned, vmvars>>

\* INTERNER.read().unwrap().from_id[self.0 as usize]: indexing panics out of bounds
\* (a read guard does not poison the lock).
ResolveIndex(t) ==
    /\ th[t].pc = "rstart"
    /\ writer = 0
    /\ IF poisoned \/ th[t].id >= Len(from_id)
       THEN /\ th' = [th EXCEPT ![t] = Panicked]
            /\ UNCHANGED readers
       ELSE /\ readers' = readers \cup {t}
            /\ th' = [th EXCEPT ![t].pc = "rdone", ![t].str = from_id[th[t].id + 1]]
    /\ UNCHANGED <<to_id, from_id, writer, poisoned, returned, vmvars>>

\* resolve returns the text; the read guard, a temporary, is dropped.
ResolveReturn(t) ==
    /\ th[t].pc = "rdone"
    /\ readers' = readers \ {t}
    /\ th' = [th EXCEPT ![t] = Idle]
    /\ UNCHANGED <<to_id, from_id, writer, poisoned, returned, vmvars>>

Next ==
    \E t \in Threads :
        \/ \E s \in Strings : CallNew(t, s)
        \/ \E s \in StaticStrings : CallStatic(t, s)
        \/ ReadLookup(t)
        \/ ReturnFound(t)
        \/ MissFallThrough(t)
        \/ WriteLock(t)
        \/ InsertToId(t)
        \/ PushFromId(t)
        \/ \E id \in 0..(MaxIds - 1) : CallResolve(t, id)
        \/ ResolveIndex(t)
        \/ ResolveReturn(t)

Spec == Init /\ [][Next]_vars

\* ------------------------------------------------- sequential use

\* No other thread is inside a call.
Quiet(t) == \A u \in Threads \ {t} : th[u].pc \in {"idle", "panicked"}

SeqCallNew(t, s) == Quiet(t) /\ CallNew(t, s)

SeqCallStatic(t, s) == Quiet(t) /\ CallStatic(t, s)

SeqCallResolve(t, id) == Quiet(t) /\ CallResolve(t, id)

\* The calls of the program made one after the other, by whichever thread: a
\* call starts only when no other call is in progress.
NextSeq ==
    \E t \in Threads :
        \/ \E s \in Strings : SeqCallNew(t, s)
        \/ \E s \in StaticStrings : SeqCallStatic(t, s)
        \/ ReadLookup(t)
        \/ ReturnFound(t)
        \/ MissFallThrough(t)
        \/ WriteLock(t)
        \/ InsertToId(t)
        \/ PushFromId(t)
        \/ \E id \in 0..(MaxIds - 1) : SeqCallResolve(t, id)
        \/ ResolveIndex(t)
        \/ ResolveReturn(t)

SpecSeq == Init /\ [][NextSeq]_vars

\* ------------------------------------------------- fair lock

\* A thread is blocked in INTERNER.write().
WriterWaiting == \E u \in Threads : th[u].pc = "wantwrite"

\* The read lock of a fair RwLock: a reader that arrives while a writer waits
\* queues behind it.
FairReadLookup(t) == ~WriterWaiting /\ ReadLookup(t)

FairResolveIndex(t) == ~WriterWaiting /\ ResolveIndex(t)

NextFair ==
    \E t \in Threads :
        \/ \E s \in Strings : CallNew(t, s)
        \/ \E s \in StaticStrings : CallStatic(t, s)
        \/ FairReadLookup(t)
        \/ ReturnFound(t)
        \/ MissFallThrough(t)
        \/ WriteLock(t)
        \/ InsertToId(t)
        \/ PushFromId(t)
        \/ \E id \in 0..(MaxIds - 1) : CallResolve(t, id)
        \/ FairResolveIndex(t)
        \/ ResolveReturn(t)

\* The steps of a call that wait for nothing.
Running(t) ==
    \/ ReturnFound(t)
    \/ MissFallThrough(t)
    \/ InsertToId(t)
    \/ PushFromId(t)
    \/ ResolveReturn(t)

\* Every thread inside a call is scheduled, and a thread blocked on the lock is
\* granted it if it can be granted again and again.
Fairness ==
    \A t \in Threads :
        /\ WF_vars(Running(t))
        /\ SF_vars(FairReadLookup(t))
        /\ SF_vars(FairResolveIndex(t))
        /\ SF_vars(WriteLock(t))

SpecFair == Init /\ [][NextFair]_vars /\ Fairness

\* ------------------------------------------------------ bytecode engine

\* Length of the generated loop bodies.
BodyLen == 3

\* A run is followed while every content buffer is shorter than this.
MaxJoined == 4

\* The iteration budget checked at BeginIter.
MaxIters == 3

\* Slots of the slot file; the writable operand 0 is the joiner.
NSlots == 3

\* An opcode with every operand at its default.
Ins(op) ==
    [op |-> op, len |-> 0, content |-> FALSE, iterable |-> <<>>,
     instruction |-> 0, condition |-> 0, value |-> "none", out |-> 0]

\* The opcodes of the catalogue that move control, open scopes or emit a value.
CopyIsr(value, out) == [Ins("CopyIsr") EXCEPT !.value = value, !.out = out]
While(len, content, out) ==
    [Ins("While") EXCEPT !.len = len, !.content = content, !.out = out]
Iter(len, iterable, content, out) ==
    [Ins("Iter") EXCEPT !.len = len, !.iterable = iterable, !.content = content,
                        !.out = out]
NextIsr(out) == [Ins("Next") EXCEPT !.out = out]
Enter(len, content, out) ==
    [Ins("Enter") EXCEPT !.len = len, !.content = content, !.out = out]
Jump(instruction) == [Ins("Jump") EXCEPT !.instruction = instruction]
JumpIf(condition, instruction) ==
    [Ins("JumpIf") EXCEPT !.condition = condition, !.instruction = instruction]
JumpIfNot(condition, instruction) ==
    [Ins("JumpIfNot") EXCEPT !.condition = condition, !.instruction = instruction]

ScopeOps == {"Enter", "While", "Iter"}
JumpOps == {"Jump", "JumpIf", "JumpIfNot"}

\* The producer's contract: within the scope [from, to) of p (positions from 0),
\* from position i on, every jump target lies inside the scope, every nested
\* scope fits, Next has an iterator scope around it, Continue and Break a loop.
RECURSIVE WellFormedFrom(_, _, _, _, _, _)
WellFormedFrom(p, i, from, to, inLoop, inIter) ==
    IF i >= to THEN i = to
    ELSE LET isr == p[i + 1] IN
        IF isr.op \in ScopeOps
        THEN /\ i + 1 + isr.len <= to
             /\ isr.out \in 0..NSlots
             /\ WellFormedFrom(p, i + 1, i + 1, i + 1 + isr.len,
                               inLoop \/ isr.op \in {"While", "Iter"},
                               inIter \/ isr.op = "Iter")
             /\ WellFormedFrom(p, i + 1 + isr.len, from, to, inLoop, inIter)
        ELSE /\ isr.op \in JumpOps => isr.instruction \in 0..(to - from - 1)
             /\ isr.op \in {"JumpIf", "JumpIfNot"} => isr.condition \in 1..NSlots
             /\ isr.op = "Next" => inIter /\ isr.out \in 1..NSlots
             /\ isr.op \in {"Continue", "Break"} => inLoop
             /\ isr.op = "CopyIsr" => isr.out \in 0..NSlots
             /\ WellFormedFrom(p, i + 1, from, to, inLoop, inIter)

WellFormed(p) == WellFormedFrom(p, 0, 0, Len(p), FALSE, FALSE)

\* The values an Iter is given to iterate over.
Iterables == {<<>>, <<"true">>, <<"false", "true">>}

\* The opcodes a generated loop body is made of.
BodyIsrs ==
    {Ins("JumpTop"), Ins("Break"), Ins("Continue"), Ins("Return"),
     CopyIsr("A", 0), NextIsr(2)}
    \cup {Jump(i) : i \in 0..(BodyLen - 1)}
    \cup {JumpIfNot(2, i) : i \in 0..(BodyLen - 1)}
    \cup {Enter(n, TRUE, 0) : n \in 1..(BodyLen - 1)}

\* An Iter loop over xs around every body of BodyLen opcodes, then one opcode more.
Generated ==
    {<<Iter(BodyLen, xs, TRUE, 1)>> \o body \o <<CopyIsr("Z", 0)>> :
        xs \in Iterables, body \in [1..BodyLen -> BodyIsrs]}

\* Programs of the shapes the compiler emits for while and for loops.
Written ==
    {
     \* while true { A }: never ends by itself
     <<While(3, TRUE, 1), Ins("BeginIter"), CopyIsr("A", 0), Ins("JumpTop")>>,
     \* for x in xs { if x { continue }; A }  B
     <<Iter(6, <<"false", "true", "false">>, TRUE, 1), Ins("BeginIter"), NextIsr(2),
       JumpIf(2, 5), CopyIsr("A", 0), Ins("JumpTop"), Ins("Continue"), CopyIsr("B", 0)>>,
     \* for x in xs { for y in ys { B }; A }
     <<Iter(7, <<"true", "true">>, TRUE, 1), NextIsr(2),
       Iter(3, <<"false">>, TRUE, 3), NextIsr(2), CopyIsr("B", 0), Ins("JumpTop"),
       CopyIsr("A", 0), Ins("JumpTop")>>,
     \* for x in xs { { A; next } }: Next inside a nested block
     <<Iter(5, <<"true">>, TRUE, 1), Enter(3, TRUE, 0), CopyIsr("A", 0), NextIsr(2),
       CopyIsr("B", 0), Ins("JumpTop"), CopyIsr("Z", 0)>>,
     \* while c { c = next-less body with a break in a nested block }
     <<CopyIsr("true", 2), While(6, FALSE, 1), Ins("BeginIter"), JumpIfNot(2, 5),
       Enter(2, TRUE, 3), CopyIsr("A", 0), Ins("Break"), Ins("Flow"), Ins("Flow")>>,
     \* for x in xs { A; { B; if x { break } } }  Z
     <<Iter(8, <<"false", "true">>, TRUE, 1), NextIsr(2), CopyIsr("A", 0),
       Enter(4, TRUE, 0), CopyIsr("B", 0), JumpIfNot(2, 3), Ins("Break"), Ins("Flow"),
       Ins("JumpTop"), CopyIsr("Z", 0)>>,
     \* for x in xs { A; { B; if x { return } } }  Z
     <<Iter(8, <<"false", "true">>, TRUE, 1), NextIsr(2), CopyIsr("A", 0),
       Enter(4, TRUE, 0), CopyIsr("B", 0), JumpIfNot(2, 3), Ins("Return"), Ins("Flow"),
       Ins("JumpTop"), CopyIsr("Z", 0)>>
    }

Programs == {p \in Generated \cup Written : WellFormed(p)}

Top(stk) == stk[Len(stk)]

Pop(stk) == SubSeq(stk, 1, Len(stk) - 1)

\* A scope of len instructions that starts after the base-th instruction of prog.
Scope(kind, base, isr) ==
    [kind |-> kind, base |-> base, len |-> isr.len, ip |-> 0,
     content |-> isr.content, joined |-> <<>>, iter |-> isr.iterable, out |-> isr.out]

\* The innermost content-joining scope among the first k, 0 if there is none.
RECURSIVE InnerContent(_, _)
InnerContent(stk, k) ==
    IF k = 0 THEN 0
    ELSE IF stk[k].content THEN k
    ELSE InnerContent(stk, k - 1)

\* The innermost scope with an attached iterator among the first k, 0 if none.
RECURSIVE InnerIter(_, _)
InnerIter(stk, k) ==
    IF k = 0 THEN 0
    ELSE IF stk[k].kind = "iter" THEN k
    ELSE InnerIter(stk, k - 1)

\* A write to a writable operand: to a slot, or (the joiner) appended to the
\* buffer of the innermost content-joining scope.
Write(stk, slt, out, v) ==
    IF out = 0
    THEN LET k == InnerContent(stk, Len(stk)) IN
         [stack |-> IF k = 0 THEN stk ELSE [stk EXCEPT ![k].joined = @ \o v],
          slots |-> slt]
    ELSE [stack |-> stk, slots |-> [slt EXCEPT ![out] = v]]

\* A scope exit that forgets the buffer of the scope.
ExitScopeUnfolded(stk, slt) ==
    [stack |-> [Pop(stk) EXCEPT ![Len(stk) - 1].ip = @ + Top(stk).len],
     slots |-> slt]

\* Leaving the innermost scope: its buffer is folded and written to its output,
\* and the enclosing scope resumes after the scope's instructions.
ExitScope(stk, slt) ==
    LET top == Top(stk)
        w == IF top.content
             THEN Write(Pop(stk), slt, top.out, top.joined)
             ELSE [stack |-> Pop(stk), slots |-> slt]
    IN [stack |-> [w.stack EXCEPT ![Len(w.stack)].ip = @ + top.len],
        slots |-> w.slots]

\* Scopes whose end is reached are left, innermost first; the run is done when
\* the outermost one ends.
RECURSIVE Settle(_, _)
Settle(stk, slt) ==
    IF Top(stk).ip # Top(stk).len
    THEN [stack |-> stk, slots |-> slt, phase |-> "fetch"]
    ELSE IF Len(stk) = 1
    THEN [stack |-> stk, slots |-> slt, phase |-> "done"]
    ELSE LET e == ExitScope(stk, slt) IN Settle(e.stack, e.slots)

\* A signal unwinds the scopes above the innermost one of the given kinds,
\* folding each; the outermost scope is never left this way.
RECURSIVE UnwindTo(_, _, _)
UnwindTo(stk, slt, kinds) ==
    IF Top(stk).kind \in kinds \/ Len(stk) = 1
    THEN [stack |-> stk, slots |-> slt]
    ELSE LET e == ExitScope(stk, slt) IN UnwindTo(e.stack, e.slots, kinds)

\* The signal leaves the scope it was unwound to as well.
LeaveThrough(stk, slt, kinds) ==
    LET u == UnwindTo(stk, slt, kinds) IN
    IF Top(u.stack).kind \in kinds /\ Len(u.stack) > 1
    THEN LET e == ExitScope(u.stack, u.slots) IN Settle(e.stack, e.slots)
    ELSE [stack |-> u.stack, slots |-> u.slots, phase |-> "error"]

\* vm.next() of Opcode::run: the pointer moves past the opcode being run.
VmNextTwice(ip) == ip + 2
VmNext(ip) == ip + 1

\* The iterator argument of Opcode::run, handed on to the handler as it is.
IteratorDropped(it) == 0
IteratorArg(it) == it

\* &instructions[isr..] and &spans[isr..] of Opcode::run: what is left of the
\* slice from the (0-based) position isr on.
InstructionSlice(instructions, isr) ==
    SubSeq(instructions, isr + 1, Len(instructions))

SpanSliceWhole(spans, isr) == spans
SpanSlice(spans, isr) == SubSeq(spans, isr + 1, Len(spans))

\* The position a jump to `instruction` sets the pointer to, in its own scope.
JumpTarget(scope, instruction) == instruction

\* ------------------------------------------------------ engine actions

\* The engine is invoked on a program, which forms the outermost scope.
VmInit ==
    /\ prog \in Programs
    /\ stack = <<[kind |-> "root", base |-> 0, len |-> Len(prog), ip |-> 0,
                  content |-> TRUE, joined |-> <<>>, iter |-> <<>>, out |-> 0]>>
    /\ slots = [i \in 1..NSlots |-> <<>>]
    /\ phase = "fetch"
    /\ cur = 0
    /\ iters = 0
    /\ last = [op |-> "Flow", note |-> "none"]

InitVm == InternerInit /\ VmInit

\* The opcode Opcode::run was called on.
Self == prog[cur]

\* What a handler leaves behind.
Finish(st, note) ==
    /\ stack' = st.stack
    /\ slots' = st.slots
    /\ phase' = st.phase
    /\ last' = [op |-> Self.op, note |-> note]
    /\ UNCHANGED <<prog, cur, ivars>>

Handling(ops) == phase = "handle" /\ Self.op \in ops

\* The spans of the program, one per instruction: the span of the i-th is i.
ProgSpans == [i \in 1..Len(prog) |-> i]

\* The instructions and the spans of a scope, which Opcode::run is called with.
ScopeInstructions(scope) == SubSeq(prog, scope.base + 1, scope.base + scope.len)

ScopeSpans(scope) == SubSeq(ProgSpans, scope.base + 1, scope.base + scope.len)

\* let isr = vm.instruction_pointer(), read after vm.next().
Isr == Top(stack).ip

\* The two slices Opcode::run hands to the handler of the opcode.
HandlerInstructions == InstructionSlice(ScopeInstructions(Top(stack)), Isr)

HandlerSpans == SpanSlice(ScopeSpans(Top(stack)), Isr)

\* The engine fetches the opcode under the pointer and calls Opcode::run on it,
\* which starts with vm.next().
Run ==
    /\ phase = "fetch"
    /\ \A k \in 1..Len(stack) : Len(stack[k].joined) < MaxJoined
    /\ Top(stack).ip < Top(stack).len
    /\ cur' = Top(stack).base + Top(stack).ip + 1
    /\ stack' = [stack EXCEPT ![Len(stack)].ip = VmNext(@)]
    /\ phase' = "handle"
    /\ UNCHANGED <<prog, slots, iters, last, ivars>>

\* Self::Flow => Ok(()).
RunFlow ==
    /\ Handling({"Flow"})
    /\ Finish(Settle(stack, slots), "none")
    /\ UNCHANGED iters

\* CopyIsr: the value is written to the output.
RunCopyIsr ==
    /\ Handling({"CopyIsr"})
    /\ LET w == Write(stack, slots, Self.out, <<Self.value>>) IN
       Finish(Settle(w.stack, w.slots), "none")
    /\ UNCHANGED iters

\* Enter, While, Iter: the len instructions after the opcode become a new scope.
RunEnter ==
    /\ Handling({"Enter"})
    /\ Finish(Settle(Append(stack, Scope("enter", cur, Self)), slots), "none")
    /\ UNCHANGED iters

RunWhile ==
    /\ Handling({"While"})
    /\ Finish(Settle(Append(stack, Scope("while", cur, Self)), slots), "none")
    /\ UNCHANGED iters

RunIter ==
    /\ Handling({"Iter"})
    /\ Finish(Settle(Append(stack, Scope("iter", cur, Self)), slots), "none")
    /\ UNCHANGED iters

\* Next: the next element of the innermost attached iterator is written to the
\* output; an exhausted iterator ends the iterator's scope instead.
RunNextIsr ==
    /\ Handling({"Next"})
    /\ LET k == IteratorArg(InnerIter(stack, Len(stack))) IN
       IF k = 0
       THEN Finish([stack |-> stack, slots |-> slots, phase |-> "error"], "no iterator")
       ELSE IF stack[k].iter = <<>>
       THEN Finish(LeaveThrough(stack, slots, {"iter"}), "exhausted")
       ELSE LET w == Write([stack EXCEPT ![k].iter = Tail(@)], slots, Self.out,
                           <<Head(stack[k].iter)>>) IN
            Finish(Settle(w.stack, w.slots), "element")
    /\ UNCHANGED iters

\* Continue: the scopes inside the nearest loop are unwound and the loop starts
\* its next iteration at its first instruction.
RunContinue ==
    /\ Handling({"Continue"})
    /\ LET u == UnwindTo(stack, slots, {"while", "iter"}) IN
       IF Top(u.stack).kind \in {"while", "iter"}
       THEN Finish(Settle([u.stack EXCEPT ![Len(u.stack)].ip = 0], u.slots), "none")
       ELSE Finish([stack |-> u.stack, slots |-> u.slots, phase |-> "error"], "no loop")
    /\ UNCHANGED iters

\* Break: the nearest loop is left.
RunBreak ==
    /\ Handling({"Break"})
    /\ Finish(LeaveThrough(stack, slots, {"while", "iter"}), "none")
    /\ UNCHANGED iters

\* Return: every scope is unwound to the function boundary, where the run ends.
RunReturn ==
    /\ Handling({"Return"})
    /\ LET u == UnwindTo(stack, slots, {"root"}) IN
       Finish([stack |-> u.stack, slots |-> u.slots, phase |-> "done"], "none")
    /\ UNCHANGED iters

\* Jump: the pointer moves to the instruction, a position of the current scope.
RunJump ==
    /\ Handling({"Jump"})
    /\ Finish(Settle([stack EXCEPT ![Len(stack)].ip =
                          JumpTarget(Top(stack), Self.instruction)], slots), "taken")
    /\ UNCHANGED iters

\* JumpTop: the pointer moves to the first instruction of the current scope.
RunJumpTop ==
    /\ Handling({"JumpTop"})
    /\ Finish(Settle([stack EXCEPT ![Len(stack)].ip = 0], slots), "taken")
    /\ UNCHANGED iters

\* JumpIf: Jump when the condition is true.
RunJumpIf ==
    /\ Handling({"JumpIf"})
    /\ IF slots[Self.condition] = <<"true">>
       THEN Finish(Settle([stack EXCEPT ![Len(stack)].ip =
                               JumpTarget(Top(stack), Self.instruction)], slots), "taken")
       ELSE Finish(Settle(stack, slots), "not taken")
    /\ UNCHANGED iters

\* JumpIfNot: Jump when the condition is not true.
RunJumpIfNot ==
    /\ Handling({"JumpIfNot"})
    /\ IF slots[Self.condition] # <<"true">>
       THEN Finish(Settle([stack EXCEPT ![Len(stack)].ip =
                               JumpTarget(Top(stack), Self.instruction)], slots), "taken")
       ELSE Finish(Settle(stack, slots), "not taken")
    /\ UNCHANGED iters

\* BeginIter: one more iteration; past the budget the run is aborted.
RunBeginIter ==
    /\ Handling({"BeginIter"})
    /\ iters' = iters + 1
    /\ IF iters >= MaxIters
       THEN Finish([stack |-> stack, slots |-> slots, phase |-> "error"], "runaway")
       ELSE Finish(Settle(stack, slots), "none")

NextVm ==
    \/ Run
    \/ RunFlow
    \/ RunCopyIsr
    \/ RunEnter
    \/ RunWhile
    \/ RunIter
    \/ RunNextIsr
    \/ RunContinue
    \/ RunBreak
    \/ RunReturn
    \/ RunJump
    \/ RunJumpTop
    \/ RunJumpIf
    \/ RunJumpIfNot
    \/ RunBeginIter

SpecVm == InitVm /\ [][NextVm]_vars

\* ------------------------------------------------------------ properties

\* The thread whose record changes in a step is the thread that takes it.
Steps(t) == th'[t] # th[t]

TextOf(r) == r[1]
IdOf(r) == r[2]
KindOf(r) == r[3]

\* C1: under every interleaving of concurrent PicoStr::new / PicoStr::static_
\* calls the table is a consistent bijection: calls made with the same text
\* return the same identity, from_id holds no text twice, and every interned
\* text is present in both directions.
C1_ConsistentBijection ==
    /\ \A r1, r2 \in returned : TextOf(r1) = TextOf(r2) => IdOf(r1) = IdOf(r2)
    /\ \A i, j \in 1..Len(from_id) : from_id[i] = from_id[j] => i = j
    /\ \A r \in returned :
        /\ TextOf(r) \in DOMAIN to_id
        /\ \E i \in 1..Len(from_id) : from_id[i] = TextOf(r)

\* An earlier PicoStr::new call with the text of the call thread t is in has returned.
SecondNew(t) ==
    /\ th[t].pc \in {"start", "hit", "miss", "wantwrite", "insert", "push"}
    /\ th[t].kind = "new"
    /\ \E r \in returned : TextOf(r) = th[t].str /\ KindOf(r) = "new"

\* C2: with the calls made one after the other, two PicoStr::new calls with equal
\* text (the empty text included) return the same identity whatever calls are
\* made between them, and no step of the second call changes to_id or from_id
\* (no identity is allocated, the table size stays): the second call finds the
\* text and returns, unless the lock was poisoned by the panic of C6, after
\* which no call returns.
C2_NewIdempotent ==
    [][ /\ \A r1, r2 \in returned' :
            (TextOf(r1) = TextOf(r2) /\ KindOf(r1) = "new" /\ KindOf(r2) = "new")
                => IdOf(r1) = IdOf(r2)
        /\ \A t \in Threads :
            (SecondNew(t) /\ Steps(t))
                => /\ UNCHANGED <<to_id, from_id>>
                   /\ \/ th'[t].pc \in {"hit", "idle"}
                      \/ poisoned /\ th'[t].pc = "panicked"
      ]_vars

\* C2's case: the empty text is returned by a second new call, after another text
\* was interned.
C2_Witness ==
    \E t \in Threads :
        /\ th[t].pc = "hit"
        /\ th[t].kind = "new"
        /\ th[t].str = <<>>
        /\ <<<<>>, th[t].id, "new">> \in returned
        /\ Len(from_id) > 1

\* C3: an identity returned for text s resolves to s in every later state, for
\* every thread: its entry of from_id exists and holds s, a resolve in progress
\* has read s, a resolve on a healthy lock does not fail, and no step
\* overwrites, removes or moves an entry of from_id.
C3_RoundTripStable ==
    [][ /\ \A r \in returned' :
            /\ IdOf(r) < Len(from_id')
            /\ from_id'[IdOf(r) + 1] = TextOf(r)
        /\ \A t \in Threads :
            /\ th'[t].pc = "rdone"
                => \A r \in returned' : IdOf(r) = th'[t].id => th'[t].str = TextOf(r)
            /\ (th[t].pc = "rstart" /\ Steps(t) /\ ~poisoned) => th'[t].pc = "rdone"
        /\ Len(from_id') >= Len(from_id)
        /\ \A i \in 1..Len(from_id) : from_id'[i] = from_id[i]
      ]_vars

\* C3's case: a resolve has read the text of an identity after further texts were
\* interned behind it.
C3_Witness ==
    \E t \in Threads :
        /\ th[t].pc = "rdone"
        /\ Len(from_id) > th[t].id + 1
        /\ \E r \in returned : IdOf(r) = th[t].id /\ TextOf(r) = th[t].str

C5_OrderIsTextOrder ==
    \A r1, r2 \in returned :
        /\ Cmp(IdOf(r1), IdOf(r2)) = StrCmp(TextOf(r1), TextOf(r2))
        /\ PartialCmp(IdOf(r1), IdOf(r2)) = <<"Some", StrCmp(TextOf(r1), TextOf(r2))>>

\* C5's case: two identities whose raw integers order against their texts.
C5_Witness ==
    \E r1, r2 \in returned :
        /\ IdOf(r1) < IdOf(r2)
        /\ StrCmp(TextOf(r1), TextOf(r2)) = "Greater"
        /\ Cmp(IdOf(r1), IdOf(r2)) = "Greater"

\* C6: when from_id already holds as many entries as the identity type can
\* represent, the insertion of a text that missed the lookup panics ("out of
\* string ids"): no identity is returned, to_id and from_id gain nothing, and no
\* identity ever lies outside the range of the counter or is handed out twice.
C6_ExhaustionFatal ==
    [][ /\ \A t \in Threads :
            (th[t].pc = "wantwrite" /\ Len(from_id) >= MaxIds /\ Steps(t))
                => /\ th'[t].pc = "panicked"
                   /\ UNCHANGED <<to_id, from_id, returned>>
        /\ Len(from_id') <= MaxIds
        /\ \A r \in returned' : IdOf(r) < MaxIds
        /\ \A t \in Threads :
            th'[t].pc \in {"insert", "push"} => th'[t].id = Len(from_id')
      ]_vars

\* C6's case: a thread panicked on the full table.
C6_Witness ==
    /\ poisoned
    /\ Len(from_id) = MaxIds
    /\ \E t \in Threads : th[t].pc = "panicked"

\* Thread t is in an intern call whose text is registered, or in a resolve call.
ReadOnlyCall(t) ==
    \/ th[t].pc = "start" /\ th[t].str \in DOMAIN to_id
    \/ th[t].pc \in {"hit", "rstart", "rdone"}

\* C7: an intern call whose text is registered, and every resolve call, takes the
\* read lock only and leaves to_id and from_id as they are; the write lock is
\* taken only after a missed lookup and is released by the insertion's last step.
C7_HitTakesReadLockOnly ==
    [][ \A t \in Threads :
        /\ (ReadOnlyCall(t) /\ Steps(t))
            => /\ UNCHANGED <<to_id, from_id, writer>>
               /\ writer # t
               /\ th'[t].pc \in {"hit", "rdone", "idle", "panicked"}
        /\ (writer' = t /\ writer # t) => th[t].pc = "wantwrite"
        /\ (th'[t].pc = "wantwrite" /\ Steps(t)) => th[t].pc = "miss"
        /\ writer' = t => th'[t].pc \in {"insert", "push"}
        /\ (th[t].pc = "push" /\ Steps(t)) => (writer = t /\ writer' = 0)
      ]_vars

\* C7's case: a hit and a resolve hold the read lock together on a table that
\* has entries.
C7_Witness ==
    \E t, u \in Threads :
        /\ th[t].pc = "hit"
        /\ th[u].pc = "rdone"
        /\ readers = {t, u}
        /\ writer = 0

\* Thread t is inside a call.
InCall(t) == th[t].pc \notin {"idle", "panicked"}

\* C8: under a fair lock and fair scheduling every intern and resolve call ends
\* (it returns, or it panics as in C6); a thread never waits for the write lock
\* while holding its own read guard; a thread holding the write guard releases it.
C8_CallsTerminate ==
    /\ [](\A t \in Threads : th[t].pc = "wantwrite" => t \notin readers)
    /\ \A t \in Threads : InCall(t) ~> ~InCall(t)
    /\ \A t \in Threads : (writer = t) ~> (writer = 0)

\* C8's case: a thread waits for the write lock while another thread reads and a
\* third party's insertion has gone before.
C8_Witness ==
    \E t, u \in Threads :
        /\ th[t].pc = "wantwrite"
        /\ th[u].pc \in {"hit", "miss", "rdone"}
        /\ u \in readers
        /\ Len(from_id) > 0

\* Every scope's pointer lies in its scope, the pointer of the active scope on
\* an instruction of it whenever the engine fetches, and scopes nest.
PointerInScope(stk, ph) ==
    /\ \A k \in 1..Len(stk) : stk[k].ip \in 0..stk[k].len
    /\ ph = "fetch" => Top(stk).ip \in 0..(Top(stk).len - 1)
    /\ \A k \in 1..(Len(stk) - 1) :
        /\ stk[k + 1].base >= stk[k].base
        /\ stk[k + 1].base + stk[k + 1].len <= stk[k].base + stk[k].len

\* The handler being run finds its iterator exhausted.
NextExhausted ==
    /\ phase = "handle"
    /\ Self.op = "Next"
    /\ InnerIter(stack, Len(stack)) > 0
    /\ stack[InnerIter(stack, Len(stack))].iter = <<>>

RECURSIVE JoinedFrom(_, _)
JoinedFrom(stk, k) ==
    IF k > Len(stk) THEN <<>> ELSE stk[k].joined \o JoinedFrom(stk, k + 1)

RECURSIVE InnerLoop(_, _)
InnerLoop(stk, k) ==
    IF k = 0 THEN 0
    ELSE IF stk[k].kind \in {"while", "iter"} THEN k
    ELSE InnerLoop(stk, k - 1)

\* The scopes above the k-th join content into the buffer of the one below.
JoinsInto(stk, k) ==
    \A j \in (k + 1)..Len(stk) : stk[j].content /\ stk[j].out = 0

\* The signal unwinding the scopes from..Len(stack) folds each content-joining
\* one that writes to a slot: the slot receives the values accumulated in the
\* scope and in the blocks inside it, in the order they were emitted.
FoldedFrom(from) ==
    \A k \in from..Len(stack) :
        (stack[k].content /\ stack[k].out > 0 /\ JoinsInto(stack, k))
            => slots'[stack[k].out] = JoinedFrom(stack, k)

\* C11: Break leaves the nearest loop and Return every scope without an
\* error; each content-joining scope unwound this way is folded, its output
\* receiving exactly the values accumulated before the signal, in emission
\* order, the buffers of inner scopes joined onto those of the outer ones.
C11_EarlyExitFolds ==
    [][ /\ (phase = "handle" /\ Self.op = "Break") =>
            LET k == InnerLoop(stack, Len(stack)) IN
            /\ k > 1
            /\ phase' \in {"fetch", "done"}
            /\ Len(stack') < k
            /\ FoldedFrom(k)
        /\ (phase = "handle" /\ Self.op = "Return") =>
            /\ phase' = "done"
            /\ Len(stack') = 1
            /\ FoldedFrom(2)
            /\ JoinsInto(stack, 1) => stack'[1].joined = JoinedFrom(stack, 1)
      ]_vars

\* C11's case: a Break inside a block of a content-joining loop, in the second
\* iteration, after A, B, A were emitted in the loop and B in the block.
C11_Witness ==
    /\ last.op = "Break"
    /\ phase \in {"fetch", "done"}
    /\ slots[1] = <<"A", "B", "A", "B">>

\* C12: a dispatch step advances the pointer of the active scope by one and
\* changes nothing else before the handler runs, and the handler runs next; a
\* handler other than Flow's is given the instructions that follow the opcode
\* in its scope and, position by position, the spans of those instructions;
\* Flow ends in success and, short of the end of its scope, leaves the scopes
\* and the slots as they are.
C12_DispatchStep ==
    [][ /\ phase = "fetch" /\ phase' # "fetch" =>
            /\ phase' = "handle"
            /\ stack' = [stack EXCEPT ![Len(stack)].ip = Top(stack).ip + 1]
            /\ cur' = Top(stack).base + Top(stack).ip + 1
            /\ UNCHANGED <<slots, iters, prog>>
            /\ Self'.op # "Flow" =>
                /\ Len(HandlerInstructions') = Top(stack).len - Top(stack).ip - 1
                /\ Len(HandlerSpans') = Len(HandlerInstructions')
                /\ \A i \in 1..Len(HandlerInstructions') :
                    /\ HandlerInstructions'[i] = prog[cur' + i]
                    /\ HandlerSpans'[i] = ProgSpans[cur' + i]
        /\ phase = "handle" => phase' # "handle"
        /\ phase = "handle" /\ Self.op = "Flow" =>
            /\ phase' \in {"fetch", "done"}
            /\ UNCHANGED iters
            /\ Top(stack).ip < Top(stack).len =>
                /\ phase' = "fetch"
                /\ UNCHANGED <<stack, slots>>
      ]_vars

\* C12's case: the handler of an opcode in the middle of a nested scope is
\* about to run, with at least two instructions left for it.
C12_Witness ==
    /\ phase = "handle"
    /\ Self.op # "Flow"
    /\ Len(stack) >= 2
    /\ Isr >= 2
    /\ Len(HandlerInstructions) >= 2

\* Every entry of to_id points at an entry of from_id that holds its text.
EntriesResolve(toId, fromId) ==
    \A s \in DOMAIN toId :
        /\ toId[s] < Len(fromId)
        /\ fromId[toId[s] + 1] = s

\* C13: whenever no thread holds the write lock, under every interleaving of
\* the calls, each entry s -> id of to_id has id < len(from_id) and
\* from_id[id] = s; from_id never shrinks, and a step that changes it is the
\* push of the registering thread, which appends that thread's text as one
\* entry, at the index that is the identity registered and returned.
C13_TableInvariant ==
    [][ /\ writer = 0 => EntriesResolve(to_id, from_id)
        /\ writer' = 0 => EntriesResolve(to_id', from_id')
        /\ Len(from_id') >= Len(from_id)
        /\ from_id' # from_id =>
            \E t \in Threads :
                /\ writer = t
                /\ Steps(t)
                /\ from_id' = Append(from_id, th[t].str)
                /\ th[t].id = Len(from_id)
                /\ to_id'[th[t].str] = Len(from_id)
                /\ <<th[t].str, Len(from_id), th[t].kind>> \in returned'
      ]_vars

\* C13's case: overlapping calls have registered one text twice and the write
\* lock is free again.
C13_Witness ==
    /\ writer = 0
    /\ Len(from_id) = 2
    /\ from_id[1] = from_id[2]
    /\ Cardinality(DOMAIN to_id) = 1

\* C14: for any two identities returned by intern calls, under every
\* interleaving of the calls, a == b (equal raw integers) exactly when
\* a.cmp(b) is Equal (equal resolved texts).
C14_EqConsistentWithOrd ==
    \A r1, r2 \in returned :
        Eq(IdOf(r1), IdOf(r2)) <=> (Cmp(IdOf(r1), IdOf(r2)) = "Equal")

====
